---- MODULE Spec2Model ----
(***************************************************************************)
(* A model of the pty layer of mprocs: the Windows pseudoconsole backend   *)
(* (src/pty/conpty.c) and the POSIX forkpty backend (src/pty/pty.c).       *)
(*                                                                         *)
(* The Windows part keeps the kernel's view (which process handles and     *)
(* pseudoconsoles are live, and who owns them), the result tuple handed to *)
(* the OCaml caller, the wait jobs of the Lwt worker pool, and the values  *)
(* the caller has been given.  The POSIX part keeps the kernel's winsize   *)
(* of each pty and the values returned by the two primitives.              *)
(***************************************************************************)
EXTENDS Integers, Sequences, FiniteSets, TLC

\* ------------------------------------------------------------ bounds
MaxSessions == 1        \* spawn attempts on the Windows backend under Spec
MaxJobs == 2            \* wait jobs created over a run
MaxPty == 2             \* ocaml_pty_fork calls on the POSIX backend

Sessions == 1..MaxSessions      \* the spawn attempts of Spec
Slots == 1..(MaxSessions + 1)   \* the spawn attempts of SpecPair: one more
ProcHandles == Slots            \* values the kernel hands out for hProcess
HPCs == Slots                   \* values the kernel hands out for HPCON

\* The exit code the OS gives a client it terminates when its console is
\* closed (STATUS_CONTROL_C_EXIT, 0xC000013A; scaled down here).  It is a
\* DWORD like every other exit code, and a process may exit with it itself.
STATUS_CONTROL_C_EXIT == 314

\* GetExitCodeProcess on a process that has not terminated.
STILL_ACTIVE == 259

\* DWORD exit codes a child may pass to ExitProcess.
ExitCodes == {0, 7, STATUS_CONTROL_C_EXIT}

\* (rows, cols) pairs the caller asks for.
SizePairs == {<<24, 80>>, <<40000, 100>>}

\* ------------------------------------------------------------ OCaml values
\* Val_int / Int_val of caml/mlvalues.h: the tagged representation.
Val_int(n) == 2 * n + 1
Int_val(v) == (v - 1) \div 2

\* A C assignment to a SHORT (COORD.X, COORD.Y): two's complement, 16 bits.
ToSHORT(n) ==
  LET m == n % 65536 IN IF m >= 32768 THEN m - 65536 ELSE m

\* A C assignment to an unsigned short (winsize.ws_row, ws_col).
ToUSHORT(n) == n % 65536

\* ------------------------------------------------------------ state
VARIABLES
  htab,    \* kernel: process handle value -> owning session, 0 = not open
  ptab,    \* kernel: HPCON value -> owning session, 0 = not live
  sess,    \* per spawn attempt: status and the result tuple
  rsrc,    \* per spawn attempt: each resource it allocated, and its state
  child,   \* per spawn attempt: the child process
  psize,   \* kernel: the pseudoconsole's size, <<Y, X>>
  jobs,    \* per session: how many wait jobs are queued, waited, done
  last,    \* the latest step of the code: what it was asked, what it handed
           \* the OS, and what it returned to the caller
  pty,     \* POSIX: per fork, the request, the kernel's winsize, the result
  lastIoctl, \* POSIX: the last ocaml_pty_ioctl_set_size call
  lastFork \* POSIX: the last ocaml_pty_fork call, step by step

winVars == <<htab, ptab, sess, rsrc, child, psize, jobs, last>>
posixVars == <<pty, lastIoctl, lastFork>>
vars == <<htab, ptab, sess, rsrc, child, psize, jobs, last, pty, lastIoctl,
          lastFork>>

ResNames == {"stdinCons", "stdinOur", "stdoutOur", "stdoutCons", "hpc",
             "attrList", "hThread", "hProcess"}

NoRes == [n \in ResNames |-> "none"]
NoTuple == [pid |-> 0, handle |-> 0, stdin |-> 0, stdout |-> 0, hpc |-> 0]
NoChild == [state |-> "none", code |-> 0, cause |-> "none"]
NoJobs == [queued |-> 0, waited |-> 0, done |-> 0]

\* A step of the code as the caller and the OS see it.  ret is what the call
\* returned (tag "unit", "job", "tuple", "value" with v, or "error"); size and
\* osok are a resize's request and whether the OS call succeeded; bad is the
\* OS calls that were handed a handle that was not open (or no longer the
\* session's); foreign is whether the step acted on another session's object.
\* For a result step, calls is what result_wait called on its way out and
\* oserr the error of a failed GetExitCodeProcess; for a spawn step, oserr is
\* the error of the step that failed.
Step(op, s, ret, size, osok, bad, frgn) ==
  [op |-> op, sess |-> s, ret |-> ret, size |-> size, osok |-> osok,
   bad |-> bad, foreign |-> frgn, calls |-> <<>>, oserr |-> 0]
Ret(tag, v) == [tag |-> tag, v |-> v]
NoStep == Step("none", 0, Ret("none", 0), <<0, 0>>, FALSE, {}, FALSE)

RECURSIVE SumJobs(_)
SumJobs(S) ==
  IF S = {} THEN 0
  ELSE LET s == CHOOSE x \in S : TRUE
       IN  jobs[s].queued + jobs[s].waited + jobs[s].done + SumJobs(S \ {s})

\* The kernel hands out the lowest value that is not in use.
LowestFree(tab) ==
  CHOOSE h \in DOMAIN tab : tab[h] = 0 /\ \A g \in DOMAIN tab : g < h => tab[g] # 0

\* ------------------------------------------------------------ spawn (Windows)
FailPoints == {"none", "pipe1", "pipe2", "pcon", "attr_alloc", "attr_init",
               "attr_update", "createproc"}

\* Win32 error codes.
ERROR_SUCCESS == 0
ERROR_FILE_NOT_FOUND == 2
ERROR_TOO_MANY_OPEN_FILES == 4
ERROR_ACCESS_DENIED == 5
ERROR_INVALID_HANDLE == 6
ERROR_OUTOFMEMORY == 14
ERROR_INVALID_PARAMETER == 87

\* The error with which each step of a spawn fails.
StepError(fail) ==
  CASE fail \in {"pipe1", "pipe2"} -> ERROR_TOO_MANY_OPEN_FILES
    [] fail = "attr_alloc"         -> ERROR_OUTOFMEMORY
    [] fail = "createproc"         -> ERROR_FILE_NOT_FOUND
    [] fail = "none"               -> ERROR_SUCCESS
    [] OTHER                       -> ERROR_INVALID_PARAMETER

\* The thread's last error once the failing step has returned, prev being
\* what it held before: CreatePipe, InitializeProcThreadAttributeList,
\* UpdateProcThreadAttribute and CreateProcessW set it; CreatePseudoConsole
\* reports through its HRESULT and malloc through its null result, and leave
\* it alone.
LastErrorAfter(fail, prev) ==
  IF fail \in {"pipe1", "pipe2", "attr_init", "attr_update", "createproc"}
    THEN StepError(fail)
    ELSE prev

\* The HRESULT _conpty_create_process returns: whether FAILED(hr), and its
\* error code.
spawn_hresult(fail) == [failed |-> fail # "none", code |-> StepError(fail)]

\* The error conpty_create_process raises when FAILED(hr): the thread's last
\* error at that point, win32_maperr(GetLastError()); hr itself is not used.
spawn_raised(fail, prev) == LastErrorAfter(fail, prev)

\* prepare_startup_info: the state of the attribute list when it returns.
\* A failed initialisation or update frees the list; success leaves it allocated.
prepare_startup_info(fail) ==
  CASE fail = "attr_alloc"  -> [ok |-> FALSE, attrList |-> "none"]
    [] fail = "attr_init"   -> [ok |-> FALSE, attrList |-> "closed"]
    [] fail = "attr_update" -> [ok |-> FALSE, attrList |-> "closed"]
    [] OTHER                -> [ok |-> TRUE,  attrList |-> "open"]

\* _conpty_create_process: the resources as they stand when it returns, for
\* each place it can fail.  No failure path closes anything.
_conpty_create_process(fail) ==
  LET pipe1 == [NoRes EXCEPT !["stdinCons"] = "open", !["stdinOur"] = "open"]
      pipe2 == [pipe1 EXCEPT !["stdoutOur"] = "open", !["stdoutCons"] = "open"]
      pcon  == [pipe2 EXCEPT !["hpc"] = "open"]
      psi   == prepare_startup_info(fail)
      attr  == [pcon EXCEPT !["attrList"] = psi.attrList]
      proc  == [attr EXCEPT !["hThread"] = "open", !["hProcess"] = "open"]
      done  == [proc EXCEPT !["hThread"] = "closed", !["stdinCons"] = "closed",
                            !["stdoutCons"] = "closed"]
  IN  CASE fail = "pipe1"      -> [ok |-> FALSE, r |-> NoRes]
        [] fail = "pipe2"      -> [ok |-> FALSE, r |-> pipe1]
        [] fail = "pcon"       -> [ok |-> FALSE, r |-> pipe2]
        [] ~psi.ok             -> [ok |-> FALSE, r |-> attr]
        [] fail = "createproc" -> [ok |-> FALSE, r |-> attr]
        [] OTHER               -> [ok |-> TRUE,  r |-> done]

\* conpty_create_process: the whole call.  size is <<rows, cols>>; prev is the
\* thread's last error on entry.
conpty_create_process(s, size, fail, prev) ==
  LET out == _conpty_create_process(fail)
      h   == LowestFree(htab)
      p   == LowestFree(ptab)
      Y   == ToSHORT(size[1])
      X   == ToSHORT(size[2])
  IN
  /\ sess[s].status = "none"
  /\ \A t \in Slots : t < s => sess[t].status # "none"
  /\ rsrc' = [rsrc EXCEPT ![s] = out.r]
  /\ ptab' = IF out.r["hpc"] = "open" THEN [ptab EXCEPT ![p] = s] ELSE ptab
  /\ psize' = IF out.r["hpc"] = "open" THEN [psize EXCEPT ![s] = <<Y, X>>] ELSE psize
  /\ htab' = IF out.ok THEN [htab EXCEPT ![h] = s] ELSE htab
  /\ child' = IF out.ok
                THEN [child EXCEPT ![s] = [NoChild EXCEPT !.state = "running"]]
                ELSE child
  /\ sess' = [sess EXCEPT ![s] =
       IF out.ok
         THEN [status |-> "ok",
               res |-> [pid |-> Val_int(s), handle |-> h, stdin |-> 1,
                        stdout |-> 1, hpc |-> p]]
         ELSE [status |-> "failed", res |-> NoTuple]]
  /\ last' = [Step("spawn", s,
                   IF spawn_hresult(fail).failed
                     THEN Ret("error", spawn_raised(fail, prev))
                     ELSE Ret("tuple", 0),
                   size, out.ok, {}, FALSE)
                EXCEPT !.oserr = spawn_hresult(fail).code]
  /\ UNCHANGED jobs
  /\ UNCHANGED posixVars

\* ------------------------------------------------------------ resize (Windows)
\* What conpty_resize returns, given whether ResizePseudoConsole succeeded:
\* the HRESULT is dropped and the value is the same either way.
conpty_resize_ret(hr_ok) == Ret("unit", 0)

\* A ResizePseudoConsole that resizes every pseudoconsole.
ResizePseudoConsole_all(t, yx) == [x \in Slots |-> yx]

\* ResizePseudoConsole succeeding on the pseudoconsole of session t: that
\* console's size becomes yx = <<Y, X>>, and nothing else changes.
ResizePseudoConsole(t, yx) == [psize EXCEPT ![t] = yx]

\* conpty_resize: no check of the session.  size is <<rows, cols>>; osok is
\* whether ResizePseudoConsole succeeds on a live pseudoconsole; acts is whether
\* a call on a dangling HPCON lands on the pseudoconsole now at that address.
conpty_resize(s, size, osok, acts) ==
  LET hpc  == sess[s].res.hpc
      X    == ToSHORT(size[2])
      Y    == ToSHORT(size[1])
      own  == ptab[hpc] = s
      t    == ptab[hpc]
      hit  == ~own /\ t # 0 /\ acts
      good == own /\ osok
  IN
  /\ sess[s].status = "ok"
  /\ own \/ ~osok
  /\ (own \/ t = 0) => ~acts
  /\ psize' = IF good THEN ResizePseudoConsole(s, <<Y, X>>)
              ELSE IF hit THEN ResizePseudoConsole(t, <<Y, X>>)
              ELSE psize
  /\ last' = Step("resize", s, conpty_resize_ret(good), size, good,
                  IF own THEN {} ELSE {"ResizePseudoConsole"}, hit)
  /\ UNCHANGED <<htab, ptab, sess, rsrc, child, jobs>>
  /\ UNCHANGED posixVars

\* ------------------------------------------------------------ kill (Windows)
\* What conpty_kill returns; completed is whether the session's wait has
\* already completed.
conpty_kill_ret(completed) == Ret("unit", 0)

\* conpty_kill: ClosePseudoConsole on the HPCON of the tuple, whatever the
\* session's state.
conpty_kill(s, acts) ==
  LET hpc == sess[s].res.hpc
      own == ptab[hpc] = s
      t   == ptab[hpc]
      hit == ~own /\ t # 0 /\ acts
      v   == IF own THEN s ELSE t      \* the session whose console is closed
  IN
  /\ sess[s].status = "ok"
  /\ (own \/ t = 0) => ~acts
  /\ IF own \/ hit
       THEN /\ ptab' = [ptab EXCEPT ![hpc] = 0]
            /\ rsrc' = [rsrc EXCEPT ![v]["hpc"] = "closed"]
       ELSE UNCHANGED <<ptab, rsrc>>
  /\ last' = Step("kill", s, conpty_kill_ret(jobs[s].done > 0), <<0, 0>>, own,
                  IF own THEN {} ELSE {"ClosePseudoConsole"}, hit)
  /\ UNCHANGED <<htab, sess, child, psize, jobs>>
  /\ UNCHANGED posixVars

\* ------------------------------------------------------------ wait job (Windows)
\* What conpty_process_wait_job returns: always a job.
conpty_process_wait_job_ret(completed) == Ret("job", 0)

\* A caller that asks for a wait job without a tuple.
has_tuple_always(s) == TRUE

\* The caller holds the tuple of session s: conpty_create_process returns it
\* on success only, and raises otherwise.
has_tuple(s) == sess[s].status = "ok"

\* conpty_process_wait_job: a new job holding the handle value of the tuple.
conpty_process_wait_job(s) ==
  LET ret == conpty_process_wait_job_ret(jobs[s].done > 0)
  IN
  /\ has_tuple(s)
  /\ SumJobs(Slots) < MaxJobs
  /\ jobs' = IF ret.tag = "job" THEN [jobs EXCEPT ![s].queued = @ + 1] ELSE jobs
  /\ last' = Step("wait", s, ret, <<0, 0>>, TRUE, {}, FALSE)
  /\ UNCHANGED <<htab, ptab, sess, rsrc, child, psize>>
  /\ UNCHANGED posixVars

\* WaitForSingleObject with a zero timeout: it returns at once.
WaitForSingleObject_polls(t) == TRUE

\* When WaitForSingleObject(handle, INFINITE) returns, t being the process the
\* handle value denotes (0: none): at once with WAIT_FAILED on a handle that is
\* not open, otherwise once the process has terminated.
WaitForSingleObject_returns(t) == t # 0 => child[t].state = "exited"

\* worker_wait, on a worker thread: WaitForSingleObject(handle, INFINITE), its
\* result ignored.  On a handle that is not open it fails at once; on an open
\* one it returns when the process behind the handle has terminated.
worker_wait(s) ==
  LET t == htab[sess[s].res.handle]
  IN
  /\ jobs[s].queued > 0
  /\ WaitForSingleObject_returns(t)
  /\ jobs' = [jobs EXCEPT ![s].queued = @ - 1, ![s].waited = @ + 1]
  /\ last' = Step("worker", s, Ret("none", 0), <<0, 0>>, t # 0,
                  IF t = s THEN {} ELSE {"WaitForSingleObject"},
                  t # 0 /\ t # s)
  /\ UNCHANGED <<htab, ptab, sess, rsrc, child, psize>>
  /\ UNCHANGED posixVars

\* result_wait returning the raw DWORD where an OCaml int is due.
result_value_untagged(code) == code

\* The value result_wait returns when GetExitCodeProcess succeeded.
result_value(code) == Val_int(code)

\* How often name occurs in a sequence of calls.
RECURSIVE Count(_, _)
Count(seq, name) ==
  IF seq = <<>> THEN 0
  ELSE (IF Head(seq) = name THEN 1 ELSE 0) + Count(Tail(seq), name)

\* What result_wait calls after GetExitCodeProcess: the failure branch closes,
\* frees and raises (uerror does not return); the success branch closes,
\* frees and returns.
result_wait_calls(qok) ==
  IF qok THEN <<"CloseHandle", "lwt_unix_free_job">>
         ELSE <<"CloseHandle", "lwt_unix_free_job">>

\* result_wait reading GetLastError only after CloseHandle.
result_error_late(qerr, afterClose) == afterClose

\* The error result_wait raises: the one read right after the failed query,
\* not the thread's last error as CloseHandle left it.
result_error(qerr, afterClose) == qerr

\* result_wait, back on the caller's thread: GetExitCodeProcess, CloseHandle,
\* free the job, and return the code or raise.  qok is whether the query
\* succeeds on an open handle; resets is whether a successful CloseHandle
\* resets the thread's last error.
result_wait(s, qok, resets) ==
  LET h    == sess[s].res.handle
      t    == htab[h]
      code == IF child[t].state = "exited" THEN child[t].code ELSE STILL_ACTIVE
      qerr == IF qok THEN ERROR_SUCCESS
              ELSE IF t = 0 THEN ERROR_INVALID_HANDLE ELSE ERROR_ACCESS_DENIED
      afterClose == IF t = 0 THEN ERROR_INVALID_HANDLE
                    ELSE IF resets THEN ERROR_SUCCESS ELSE qerr
  IN
  /\ jobs[s].waited > 0
  /\ t = 0 => ~qok
  /\ jobs' = [jobs EXCEPT ![s].waited = @ - 1, ![s].done = @ + 1]
  /\ IF t # 0
       THEN /\ htab' = [htab EXCEPT ![h] = 0]
            /\ rsrc' = [rsrc EXCEPT ![t]["hProcess"] = "closed"]
       ELSE UNCHANGED <<htab, rsrc>>
  /\ last' = [Step("result", s,
                   IF qok THEN Ret("value", result_value(code))
                          ELSE Ret("error", result_error(qerr, afterClose)),
                   <<0, 0>>, qok,
                   IF t = s THEN {} ELSE {"GetExitCodeProcess", "CloseHandle"},
                   t # 0 /\ t # s)
                EXCEPT !.calls = result_wait_calls(qok), !.oserr = qerr]
  /\ UNCHANGED <<ptab, sess, child, psize>>
  /\ UNCHANGED posixVars

\* ------------------------------------------------------------ the child (Windows)
\* The child started by CreateProcessW exits on its own with some code.
ChildExit(s, c) ==
  /\ child[s].state = "running"
  /\ child' = [child EXCEPT ![s] = [state |-> "exited", code |-> c,
                                    cause |-> "normal"]]
  /\ UNCHANGED <<htab, ptab, sess, rsrc, psize, jobs, last>>
  /\ UNCHANGED posixVars

\* The OS terminates the client of a pseudoconsole that has been closed.
ChildTerminated(s) ==
  /\ child[s].state = "running"
  /\ rsrc[s]["hpc"] = "closed"
  /\ child' = [child EXCEPT ![s] = [state |-> "exited",
                                    code |-> STATUS_CONTROL_C_EXIT,
                                    cause |-> "forced"]]
  /\ UNCHANGED <<htab, ptab, sess, rsrc, psize, jobs, last>>
  /\ UNCHANGED posixVars

\* ------------------------------------------------------------ POSIX
\* The (rows, cols) pairs asked of the POSIX backend.
PosixSizes == {<<24, 80>>, <<24, 24>>, <<65535, 1>>}

\* File descriptors: the masters forkpty hands out, and one that is not open.
FirstFd == 3
Fds == FirstFd..(FirstFd + MaxPty)

\* The winsize record ocaml_pty_fork builds for forkpty from its locals
\* rows = Int_val(vHeight) and cols = Int_val(vWidth).
fork_winsize(rows, cols) ==
  [ws_row |-> ToUSHORT(cols), ws_col |-> ToUSHORT(rows),
   ws_xpixel |-> 0, ws_ypixel |-> 0]

\* The winsize record ocaml_pty_ioctl_set_size builds for ioctl(TIOCSWINSZ).
ioctl_winsize(rows, cols) ==
  [ws_row |-> ToUSHORT(rows), ws_col |-> ToUSHORT(cols),
   ws_xpixel |-> 0, ws_ypixel |-> 0]

\* The platforms the file is built for, as far as the termios set-up differs,
\* and what the bytes of an automatic variable can hold before assignment.
Platforms == {"linux", "apple"}
Garbage == {0, 170}

\* Conversion to cc_t, an unsigned char.
ToCC(n) == n % 256

\* _POSIX_VDISABLE of the platform.
VDISABLE(plat) == IF plat = "apple" THEN 255 ELSE 0

\* The control characters ocaml_pty_fork assigns on every platform.
CcAssigned ==
  [VEOF |-> ToCC(4), VEOL |-> ToCC(-1), VEOL2 |-> ToCC(-1),
   VERASE |-> ToCC(127), VWERASE |-> ToCC(23), VKILL |-> ToCC(21),
   VREPRINT |-> ToCC(18), VINTR |-> ToCC(3), VQUIT |-> ToCC(28),
   VSUSP |-> ToCC(26), VSTART |-> ToCC(17), VSTOP |-> ToCC(19),
   VLNEXT |-> ToCC(22), VDISCARD |-> ToCC(15), VMIN |-> ToCC(1),
   VTIME |-> ToCC(0)]

\* The two more it assigns under __APPLE__.
CcAssignedApple == [VDSUSP |-> ToCC(25), VSTATUS |-> ToCC(20)]

\* The slots of c_cc: the named ones of the platform and the rest of the
\* NCCS bytes.
CcSlots(plat) ==
  DOMAIN CcAssigned \cup
    (IF plat = "apple" THEN {"VDSUSP", "VSTATUS", "spare"}
                       ELSE {"VSWTC", "spare"})

\* c_cc as ocaml_pty_fork leaves it: struct termios t starts out
\* uninitialised, every byte g, and only the assigned slots get a value.
fork_c_cc(plat, g) ==
  [n \in CcSlots(plat) |->
     IF n \in DOMAIN CcAssigned THEN CcAssigned[n]
     ELSE IF plat = "apple" /\ n \in DOMAIN CcAssignedApple
       THEN CcAssignedApple[n]
     ELSE g]

\* The termios record ocaml_pty_fork hands to forkpty; c_line exists on
\* Linux only and is never assigned.
fork_termios(plat, g) ==
  LET iflag == {"ICRNL", "IXON", "IXANY", "IMAXBEL", "BRKINT", "IUTF8"}
      oflag == {"OPOST", "ONLCR"}
      cflag == {"CREAD", "CS8", "HUPCL"}
      lflag == {"ICANON", "ISIG", "IEXTEN", "ECHO", "ECHOE", "ECHOK",
                "ECHOKE", "ECHOCTL"}
  IN  IF plat = "linux"
        THEN [c_iflag |-> iflag, c_oflag |-> oflag, c_cflag |-> cflag,
              c_lflag |-> lflag, c_line |-> g, c_cc |-> fork_c_cc(plat, g),
              c_ispeed |-> "B38400", c_ospeed |-> "B38400"]
        ELSE [c_iflag |-> iflag, c_oflag |-> oflag, c_cflag |-> cflag,
              c_lflag |-> lflag, c_cc |-> fork_c_cc(plat, g),
              c_ispeed |-> "B38400", c_ospeed |-> "B38400"]

\* The signals of the platform, and the masks a caller enters
\* ocaml_pty_fork with.
Signals == {"SIGINT", "SIGCHLD", "SIGTERM"}
Masks == {{}, {"SIGCHLD"}}

\* sigfillset: every signal.
sigfillset == Signals

\* One call made by ocaml_pty_fork, with the thread's signal mask before and
\* after it.
Call(name, pre, post) == [call |-> name, pre |-> pre, post |-> post]

\* A second pthread_sigmask that installs newmask again.
sigmask_restore_newmask(oldmask, newmask) == newmask

\* The mask the second pthread_sigmask(SIG_SETMASK, &oldmask, NULL) installs.
sigmask_restore(oldmask, newmask) == oldmask

\* What ocaml_pty_fork does in the parent from the end of the termios set-up
\* on: mask0 is the mask on entry, forks whether forkpty succeeds.
fork_parent_steps(mask0, forks) ==
  LET newmask  == sigfillset
      oldmask  == mask0        \* stored by the first pthread_sigmask
      restored == sigmask_restore(oldmask, newmask)
  IN  << Call("cfsetospeed", mask0, mask0),
         Call("sigfillset", mask0, mask0),
         Call("pthread_sigmask", mask0, newmask),
         Call("forkpty", newmask, newmask),
         Call("pthread_sigmask", newmask, restored),
         IF forks THEN Call("CAMLreturn", restored, restored)
                  ELSE Call("caml_failwith", restored, restored) >>

\* What ocaml_pty_fork does in the child, where forkpty returned 0: every
\* signal back to SIG_DFL, the mask restored, and then case 0 of the switch.
fork_child_steps(mask0) ==
  LET newmask  == sigfillset
      restored == sigmask_restore(mask0, newmask)
  IN  << Call("sigaction", newmask, newmask),
         Call("pthread_sigmask", newmask, restored),
         Call("CAMLreturn", restored, restored) >>

\* No ocaml_pty_fork call yet.
NoFork ==
  [called |-> FALSE, mask0 |-> {}, forks |-> FALSE, parent |-> <<>>,
   child |-> <<>>, childRet |-> Ret("none", 0), plat |-> "none",
   term |-> <<>>]

\* ocaml_pty_fork in the parent: forkpty either fails (pid = -1, the call
\* raises) or yields a master descriptor and a child whose pty has the winsize
\* it was given.  vWidth and vHeight arrive as OCaml ints; mask0 is the
\* caller's signal mask, plat the platform of the build and g what the stack
\* held where struct termios t is placed.
ocaml_pty_fork(vWidth, vHeight, forks, mask0, plat, g) ==
  LET rows == Int_val(vHeight)
      cols == Int_val(vWidth)
      winp == fork_winsize(rows, cols)
      n    == Len(pty) + 1
  IN
  /\ Len(pty) < MaxPty
  /\ pty' = Append(pty,
       IF forks
         THEN [ok |-> TRUE, rows |-> rows, cols |-> cols, winp |-> winp,
               master |-> FirstFd + Len(SelectSeq(pty, LAMBDA e : e.ok)),
               pid |-> n, ws |-> winp]
         ELSE [ok |-> FALSE, rows |-> rows, cols |-> cols, winp |-> winp,
               master |-> -1, pid |-> -1, ws |-> winp])
  /\ lastFork' =
       [called |-> TRUE, mask0 |-> mask0, forks |-> forks,
        parent |-> fork_parent_steps(mask0, forks),
        child |-> IF forks THEN fork_child_steps(mask0) ELSE <<>>,
        childRet |-> IF forks THEN Ret("Val_none", 0) ELSE Ret("none", 0),
        plat |-> plat, term |-> fork_termios(plat, g)]
  /\ UNCHANGED lastIoctl
  /\ UNCHANGED winVars

\* The pty whose master is fd, or 0 when fd is not an open master.
PtyOf(fd) ==
  IF \E i \in 1..Len(pty) : pty[i].ok /\ pty[i].master = fd
    THEN CHOOSE i \in 1..Len(pty) : pty[i].ok /\ pty[i].master = fd
    ELSE 0

\* ocaml_pty_ioctl_set_size: ioctl(fd, TIOCSWINSZ, &sz) and its result code,
\* returned as an OCaml int.
ocaml_pty_ioctl_set_size(vFd, vWidth, vHeight) ==
  LET fd     == Int_val(vFd)
      rows   == Int_val(vHeight)
      cols   == Int_val(vWidth)
      sz     == ioctl_winsize(rows, cols)
      i      == PtyOf(fd)
      result == IF i = 0 THEN -1 ELSE 0
  IN
  /\ pty' = IF i = 0 THEN pty ELSE [pty EXCEPT ![i].ws = sz]
  /\ lastIoctl' = [called |-> TRUE, fd |-> fd, rows |-> rows, cols |-> cols,
                   result |-> result, ret |-> Val_int(result)]
  /\ UNCHANGED lastFork
  /\ UNCHANGED winVars

\* ------------------------------------------------------------ specification
\* What the thread's last error can hold when a spawn is entered.
StaleErrors == {ERROR_SUCCESS, ERROR_INVALID_HANDLE}

Init ==
  /\ htab = [h \in ProcHandles |-> 0]
  /\ ptab = [p \in HPCs |-> 0]
  /\ sess = [s \in Slots |-> [status |-> "none", res |-> NoTuple]]
  /\ rsrc = [s \in Slots |-> NoRes]
  /\ child = [s \in Slots |-> NoChild]
  /\ psize = [s \in Slots |-> <<0, 0>>]
  /\ jobs = [s \in Slots |-> NoJobs]
  /\ last = NoStep
  /\ pty = <<>>
  /\ lastIoctl = [called |-> FALSE, fd |-> 0, rows |-> 0, cols |-> 0,
                  result |-> 0, ret |-> 0]
  /\ lastFork = NoFork

\* What a caller holding session tuples can do, and what the worker pool, the
\* children and the OS do.
Control ==
  \/ \E s \in Slots, size \in SizePairs, osok \in BOOLEAN, acts \in BOOLEAN :
       conpty_resize(s, size, osok, acts)
  \/ \E s \in Slots, acts \in BOOLEAN : conpty_kill(s, acts)
  \/ \E s \in Slots : conpty_process_wait_job(s)
  \/ \E s \in Slots : worker_wait(s)
  \/ \E s \in Slots, qok \in BOOLEAN, resets \in BOOLEAN :
       result_wait(s, qok, resets)
  \/ \E s \in Slots, c \in ExitCodes : ChildExit(s, c)
  \/ \E s \in Slots : ChildTerminated(s)

\* The Windows backend, MaxSessions spawn attempts.
Next ==
  \/ \E s \in Sessions, size \in SizePairs, fail \in FailPoints,
          prev \in StaleErrors :
       conpty_create_process(s, size, fail, prev)
  \/ Control

Spec == Init /\ [][Next]_vars

\* The Windows backend with one more spawn attempt, so that two sessions live
\* side by side already at the smallest bound.
NextPair ==
  \/ \E s \in Slots, size \in SizePairs, fail \in FailPoints,
          prev \in StaleErrors :
       conpty_create_process(s, size, fail, prev)
  \/ Control

SpecPair == Init /\ [][NextPair]_vars

\* Spec with the scheduling the runtime provides: a queued job's worker runs,
\* a finished worker's result step runs, and the OS does terminate the client
\* of a closed pseudoconsole.
Fairness ==
  /\ WF_vars(\E s \in Slots : worker_wait(s))
  /\ WF_vars(\E s \in Slots, qok \in BOOLEAN, resets \in BOOLEAN :
               result_wait(s, qok, resets))
  /\ WF_vars(\E s \in Slots : ChildTerminated(s))

SpecLive == Spec /\ Fairness

\* A pending wait of a killed session completes.
KilledWaitCompletes ==
  \A s \in Slots :
    (sess[s].status = "ok" /\ rsrc[s]["hpc"] = "closed"
       /\ jobs[s].queued + jobs[s].waited > 0)
      ~> (jobs[s].done > 0)

\* The POSIX backend.
NextPosix ==
  \/ \E sz \in PosixSizes, forks \in BOOLEAN, mask0 \in Masks,
          plat \in Platforms, g \in Garbage :
       ocaml_pty_fork(Val_int(sz[2]), Val_int(sz[1]), forks, mask0, plat, g)
  \/ \E fd \in Fds, sz \in PosixSizes :
       ocaml_pty_ioctl_set_size(Val_int(fd), Val_int(sz[2]), Val_int(sz[1]))

SpecPosix == Init /\ [][NextPosix]_vars

\* ------------------------------------------------------------ claims
\* A session is Running while its child has not terminated and its
\* pseudoconsole has not been closed.
Running(s) ==
  /\ sess[s].status = "ok"
  /\ child[s].state = "running"
  /\ ptab[sess[s].res.hpc] = s

\* The handles a session owns once spawn has returned.
OwnedHandles == {"hProcess", "hpc", "stdinOur", "stdoutOur"}

\* The values a wait can deliver for a child that exited on its own.
NormalStatuses == {Val_int(c) : c \in ExitCodes}

\* C1: when a spawn attempt fails, every resource the attempt allocated has
\* been released when the error reaches the caller, and no child is running.
C1_FailedSpawnReleasesAll ==
  \A s \in Slots :
    sess[s].status = "failed" =>
      /\ \A n \in ResNames : rsrc[s][n] # "open"
      /\ child[s].state = "none"

\* C2: a session sees at most one exit completion, and its process handle is
\* closed (CloseHandle in result_wait, once per finished job) at most once.
C2_OneCompletionOneClose ==
  \A s \in Slots : jobs[s].done <= 1

\* C3: a kill or a wait request made after the session's wait has completed
\* returns an error, and hands no closed handle to the OS.
C3_LateRequestRejected ==
  (last.op \in {"kill", "wait"} /\ jobs[last.sess].done > 0) =>
    (last.ret.tag = "error" /\ last.bad = {})

\* C4: no step hands the OS a control handle or process handle that has
\* already been closed.
C4_NoUseAfterClose ==
  last.bad = {}

\* C5: once the child has terminated and the wait has completed, every handle
\* the session owns has been closed, and none more than once.
C5_HandlesClosedOnce ==
  \A s \in Slots :
    (sess[s].status = "ok" /\ child[s].state = "exited" /\ jobs[s].done > 0) =>
      /\ \A n \in OwnedHandles : rsrc[s][n] = "closed"
      /\ jobs[s].done = 1
      /\ ~(last.sess = s /\ "ClosePseudoConsole" \in last.bad)

\* C6: the status a wait delivers for a child that was killed and did not exit
\* on its own differs from every status of a normal exit.
C6_ForcedStatusDistinct ==
  (/\ last.op = "result"
   /\ last.bad = {}
   /\ last.ret.tag = "value"
   /\ child[last.sess].cause = "forced") =>
    last.ret.v \notin NormalStatuses

\* C7: the completion a wait job delivers for a child that exited on its own
\* with code c carries exactly c, as the OCaml caller reads it.
C7_ExitCodeDelivered ==
  (/\ last.op = "result"
   /\ last.bad = {}
   /\ last.ret.tag = "value"
   /\ child[last.sess].cause = "normal") =>
    Int_val(last.ret.v) = child[last.sess].code

\* C7 happens: the one completion of a session whose child exited with 7.
C7_Witness ==
  /\ last.op = "result"
  /\ last.bad = {}
  /\ last.ret.tag = "value"
  /\ child[last.sess].cause = "normal"
  /\ child[last.sess].code = 7
  /\ jobs[last.sess].done = 1

\* C8: the winsize a successful fork hands to forkpty has ws_row = rows and
\* ws_col = cols.
C8_ForkWinsize ==
  \A i \in 1..Len(pty) :
    pty[i].ok =>
      (pty[i].winp.ws_row = pty[i].rows /\ pty[i].winp.ws_col = pty[i].cols)

\* C9: after a resize of a Running session has returned success, the size the
\* OS holds for the session is the (rows, cols) just asked for.
C9_ResizeThenQuery ==
  /\ (last.op = "resize" /\ last.ret.tag = "unit" /\ Running(last.sess)) =>
       psize[last.sess] = last.size
  /\ (lastIoctl.called /\ Int_val(lastIoctl.ret) = 0) =>
       LET i == PtyOf(lastIoctl.fd)
       IN  i # 0 /\ pty[i].ws.ws_row = lastIoctl.rows
                 /\ pty[i].ws.ws_col = lastIoctl.cols

\* C10: a resize whose OS call failed does not return the success value.
C10_OsFailureReported ==
  /\ (last.op = "resize" /\ last.bad = {} /\ ~last.osok) => last.ret.tag = "error"
  /\ (lastIoctl.called /\ lastIoctl.result # 0) => Int_val(lastIoctl.ret) # 0

\* C11: when GetExitCodeProcess fails on the session's open process handle,
\* result_wait closes the handle once and frees the job once, as on the
\* success path, leaves the handle closed, and raises the error of the query.
C11_QueryFailureClosesOnce ==
  (last.op = "result" /\ last.bad = {}) =>
    /\ Count(last.calls, "CloseHandle") = 1
    /\ Count(last.calls, "lwt_unix_free_job") = 1
    /\ rsrc[last.sess]["hProcess"] = "closed"
    /\ htab[sess[last.sess].res.handle] = 0
    /\ ~last.osok => last.ret = Ret("error", last.oserr)
    /\ ~last.osok => last.oserr # ERROR_SUCCESS

\* C11 happens: a failed query on an open handle has been reported.
C11_Witness ==
  /\ last.op = "result"
  /\ last.bad = {}
  /\ ~last.osok
  /\ last.ret.tag = "error"
  /\ last.oserr = ERROR_ACCESS_DENIED

\* A session with a queued wait job on its own open process handle.
PendingOwn(s) ==
  /\ sess[s].status = "ok"
  /\ jobs[s].queued + jobs[s].waited > 0
  /\ htab[sess[s].res.handle] = s

\* C12: while a wait job is pending for a child that has not terminated, only
\* the worker step waits: creating a job, resize and kill are enabled; the
\* worker step finishes only once the child has terminated and the result step
\* runs only after a worker step; resize and kill leave the jobs alone, each
\* job goes queued -> waited -> done once, and whatever resize and kill did the
\* worker step is enabled once the child has terminated and the result step
\* once a worker step has finished.
C12_PendingWaitBlocksOnlyWorker ==
  /\ [](\A s \in Slots :
          (PendingOwn(s) /\ jobs[s].queued > 0 /\ child[s].state = "running") =>
            /\ ~ENABLED worker_wait(s)
            /\ ENABLED (\E size \in SizePairs, osok \in BOOLEAN, acts \in BOOLEAN :
                          conpty_resize(s, size, osok, acts))
            /\ ENABLED (\E acts \in BOOLEAN : conpty_kill(s, acts))
            /\ SumJobs(Slots) < MaxJobs => ENABLED conpty_process_wait_job(s))
  /\ [](\A s \in Slots :
          /\ (PendingOwn(s) /\ jobs[s].queued > 0 /\ child[s].state = "exited")
               => ENABLED worker_wait(s)
          /\ (sess[s].status = "ok" /\ jobs[s].waited > 0)
               => ENABLED (\E qok \in BOOLEAN, resets \in BOOLEAN :
                            result_wait(s, qok, resets)))
  /\ [][\A s \in Slots :
          /\ (jobs'[s].waited > jobs[s].waited /\ htab[sess[s].res.handle] = s)
               => child[s].state = "exited"
          /\ jobs'[s].done # jobs[s].done =>
               /\ jobs[s].waited > 0
               /\ jobs'[s] = [jobs[s] EXCEPT !.waited = @ - 1, !.done = @ + 1]
          /\ jobs'[s].queued + jobs'[s].waited + jobs'[s].done
               >= jobs[s].queued + jobs[s].waited + jobs[s].done
          /\ jobs'[s] # jobs[s] =>
               (last'.sess = s /\ last'.op \in {"wait", "worker", "result"})]_vars

\* Under the runtime's scheduling the pending job of a child that has
\* terminated, or whose pseudoconsole was closed, does complete.
PendingWaitCompletes ==
  \A s \in Slots :
    (PendingOwn(s) /\ (child[s].state = "exited" \/ rsrc[s]["hpc"] = "closed"))
      ~> (jobs[s].done > 0)

\* C12 happens: a kill while a job is queued for a running child.
C12_Witness ==
  \E s \in Slots :
    /\ last.op = "kill" /\ last.sess = s
    /\ PendingOwn(s) /\ jobs[s].queued > 0
    /\ child[s].state = "running"

\* A failed spawn leaves the handles, pseudoconsoles, children and sizes of
\* the other sessions as they were.
FailedSpawnLeavesOthers ==
  [][(last'.op = "spawn" /\ ~last'.osok /\ sess'[last'.sess] # sess[last'.sess]) =>
       /\ \A h \in ProcHandles : htab[h] # 0 => htab'[h] = htab[h]
       /\ \A p \in HPCs : ptab[p] # 0 => ptab'[p] = ptab[p]
       /\ \A s \in Slots \ {last'.sess} :
            /\ sess'[s] = sess[s] /\ rsrc'[s] = rsrc[s]
            /\ child'[s] = child[s] /\ psize'[s] = psize[s]]_vars

\* C13: no operation on one session waits on, queries, resizes or closes a
\* process handle or pseudoconsole that belongs to another session, also when
\* the OS has given the other session a handle value the first had closed.
C13_NoCrossSession ==
  ~last.foreign

\* C14: a wait job exists, runs or completes only for a session whose spawn
\* has returned its tuple; a session whose spawn failed or was never made has
\* no job, queued, waited or done.
C14_WaitOnlyAfterSpawn ==
  /\ \A s \in Slots : sess[s].status # "ok" => jobs[s] = NoJobs
  /\ last.op \in {"wait", "worker", "result"} => sess[last.sess].status = "ok"

\* C14 happens: the exit of a spawned session has been delivered.
C14_Witness ==
  \E s \in Slots :
    /\ sess[s].status = "ok"
    /\ last.op = "result" /\ last.sess = s
    /\ last.ret.tag = "value"
    /\ jobs[s].done = 1

\* C15: a resize of a Running session changes the size of that session's
\* pseudoconsole and nothing else: state, pid, process handle, pseudoconsole
\* and both pipe ends stay as they were, the open ones open, no wait job is
\* created or completed, and no other session's size changes; so for every
\* resize.
C15_ResizeChangesOnlySize ==
  [][(last'.op = "resize" /\ last' # last /\ Running(last'.sess)) =>
       /\ htab' = htab /\ ptab' = ptab
       /\ sess' = sess /\ rsrc' = rsrc
       /\ child' = child /\ jobs' = jobs
       /\ \A n \in OwnedHandles :
            rsrc[last'.sess][n] = "open" => rsrc'[last'.sess][n] = "open"
       /\ \A t \in Slots \ {last'.sess} : psize'[t] = psize[t]
       /\ last'.bad = {} /\ ~last'.foreign]_vars

\* The POSIX resize changes the window size of the pty behind the descriptor
\* and nothing else of any pty.
IoctlChangesOnlySize ==
  [][lastIoctl' # lastIoctl =>
       \A i \in DOMAIN pty :
         /\ i \in DOMAIN pty'
         /\ [pty'[i] EXCEPT !.ws = pty[i].ws] = pty[i]
         /\ pty'[i].ws # pty[i].ws => pty[i].master = lastIoctl'.fd]_vars

\* C15 happens: a resize of a Running session has set its size, with a wait
\* job pending.
C15_Witness ==
  /\ last.op = "resize"
  /\ Running(last.sess)
  /\ last.osok
  /\ psize[last.sess] = <<ToSHORT(last.size[1]), ToSHORT(last.size[2])>>
  /\ \A n \in OwnedHandles : rsrc[last.sess][n] = "open"
  /\ jobs[last.sess].queued > 0

\* C16: in the parent, ocaml_pty_fork blocks every signal right before
\* forkpty and restores the mask it found right after it; whether it then
\* returns the session or raises, the mask is the one on entry, and forkpty is
\* the only call made while every signal is blocked.
C16_MaskBracketsFork ==
  lastFork.called =>
    LET p == lastFork.parent
    IN  \E f \in 2..(Len(p) - 2) :
          /\ p[f].call = "forkpty"
          /\ p[f].pre = Signals /\ p[f].post = Signals
          /\ p[f - 1].call = "pthread_sigmask"
          /\ p[f - 1].pre = lastFork.mask0 /\ p[f - 1].post = Signals
          /\ p[f + 1].call = "pthread_sigmask"
          /\ p[f + 1].pre = Signals /\ p[f + 1].post = lastFork.mask0
          /\ \A i \in 1..Len(p) :
               i \notin {f - 1, f, f + 1} =>
                 (p[i].pre = lastFork.mask0 /\ p[i].post = lastFork.mask0)
          /\ p[Len(p)].call = IF lastFork.forks THEN "CAMLreturn"
                              ELSE "caml_failwith"

\* C16 happens: a fork entered with a signal blocked has failed and raised.
C16_Witness ==
  /\ lastFork.called
  /\ lastFork.mask0 = {"SIGCHLD"}
  /\ ~lastFork.forks
  /\ lastFork.parent[Len(lastFork.parent)].call = "caml_failwith"

\* C17: in the child, where forkpty returned 0, ocaml_pty_fork never returns
\* to its caller: after resetting the signals the child execs the program or
\* terminates abnormally, and no value comes back from the spawn.
C17_ChildNeverReturns ==
  (lastFork.called /\ lastFork.forks) =>
    /\ lastFork.child[Len(lastFork.child)].call \in {"execvp", "_exit", "abort"}
    /\ lastFork.childRet.tag = "none"

\* C18: after a successful spawn the two console-side pipe ends and the
\* child's thread handle have been closed, the attribute list has been
\* released, and the session holds, open, its two pipe ends, the
\* pseudoconsole and the process handle, with the pid.
C18_SuccessfulSpawnHoldsOnlyItsOwn ==
  (last.op = "spawn" /\ last.osok) =>
    /\ \A n \in {"stdinCons", "stdoutCons", "hThread", "attrList"} :
         rsrc[last.sess][n] = "closed"
    /\ \A n \in OwnedHandles : rsrc[last.sess][n] = "open"
    /\ sess[last.sess].status = "ok"
    /\ sess[last.sess].res.pid # NoTuple.pid

\* C19: when a step of a spawn fails, the error the spawn raises is the OS
\* error of that step: the CreatePipe, CreatePseudoConsole, attribute-list or
\* CreateProcessW error.
C19_SpawnRaisesStepError ==
  (last.op = "spawn" /\ last.ret.tag = "error") =>
    last.ret.v = last.oserr

\* C20: the termios record handed to forkpty is one fixed record, whatever
\* the stack held and whatever was spawned before: no field is left
\* indeterminate, EOL and EOL2 hold the platform's disable value, MIN is 1,
\* TIME is 0, and input and output speed are the same rate, not B0.
C20_TermiosFixed ==
  lastFork.called =>
    /\ \A g \in Garbage : lastFork.term = fork_termios(lastFork.plat, g)
    /\ lastFork.term.c_cc["VEOL"] = VDISABLE(lastFork.plat)
    /\ lastFork.term.c_cc["VEOL2"] = VDISABLE(lastFork.plat)
    /\ lastFork.term.c_cc["VMIN"] = 1
    /\ lastFork.term.c_cc["VTIME"] = 0
    /\ lastFork.term.c_ispeed = lastFork.term.c_ospeed
    /\ lastFork.term.c_ispeed # "B0"

\* The POSIX resize hands the kernel the rows and cols it was asked for, for
\* every size up to 65535.
IoctlSizeExact ==
  (lastIoctl.called /\ lastIoctl.result = 0) =>
    LET i == PtyOf(lastIoctl.fd)
    IN  /\ i # 0
        /\ pty[i].ws.ws_row = lastIoctl.rows
        /\ pty[i].ws.ws_col = lastIoctl.cols
        /\ lastIoctl.rows \in 1..65535 /\ lastIoctl.cols \in 1..65535

\* C21: for rows and cols in 1..65535, the size a spawn or a resize hands to
\* the OS is (rows, cols) itself: nothing is truncated, wrapped or turned
\* negative on the way into the COORD.
C21_SizeHandedExactly ==
  (/\ last.op \in {"spawn", "resize"}
   /\ last.osok
   /\ last.size[1] \in 1..65535
   /\ last.size[2] \in 1..65535
   /\ ptab[sess[last.sess].res.hpc] = last.sess) =>
    /\ psize[last.sess][1] = last.size[1]
    /\ psize[last.sess][2] = last.size[2]
    /\ psize[last.sess][1] > 0 /\ psize[last.sess][2] > 0
====
